---- MODULE Spec2Model ----
(***************************************************************************)
(* The Client Tracker of rprashmi/FrappeCampaign: the script that pushes   *)
(* event envelopes into window.dataLayer.  Two builds of the script exist: *)
(* the tracking_key build (src/unnamed/part_002) and the org build         *)
(* (src/campaign_management/public/js/client_tracker.js).                  *)
(*                                                                         *)
(* A browser session is modelled: the cookie, localStorage and             *)
(* sessionStorage, a sequence of navigations, the script run on each page  *)
(* and the events the browser delivers to the listeners it registered.     *)
(***************************************************************************)
EXTENDS Integers, Sequences, FiniteSets, TLC

----------------------------------------------------------------------------
(* JavaScript values and objects                                           *)

\* a JavaScript string value
Str(s) == [t |-> "str", v |-> s]

\* a JavaScript number value
Num(n) == [t |-> "num", n |-> n]

\* the JavaScript value undefined
undefined == [t |-> "undef"]

\* ToBoolean of a value: '' , 0 and undefined are falsy
Truthy(v) ==
  CASE v.t = "str" -> v.v # ""
    [] v.t = "num" -> v.n # 0
    [] OTHER -> FALSE

\* a || b
Or(a, b) == IF Truthy(a) THEN a ELSE b

\* the object {}
EmptyObj == [k \in {} |-> undefined]

\* o.k : the property, or undefined when o has no such key
Get(o, k) == IF k \in DOMAIN o THEN o[k] ELSE undefined

\* {...a, ...b}
Spread(a, b) ==
  [k \in (DOMAIN a) \cup (DOMAIN b) |-> IF k \in DOMAIN b THEN b[k] ELSE a[k]]

\* the object a after the assignment a[k] = v
Assign(a, k, v) == [x \in (DOMAIN a) \cup {k} |-> IF x = k THEN v ELSE a[x]]

\* String.prototype.includes
Includes(s, sub) ==
  \E i \in 1..(Len(s) - Len(sub) + 1) : SubSeq(s, i, i + Len(sub) - 1) = sub

\* toLowerCase of one character (the letters that occur in the field names used)
LowerChar(c) ==
  CASE c = "A" -> "a" [] c = "B" -> "b" [] c = "C" -> "c" [] c = "D" -> "d"
    [] c = "E" -> "e" [] c = "F" -> "f" [] c = "G" -> "g" [] c = "H" -> "h"
    [] c = "I" -> "i" [] c = "J" -> "j" [] c = "K" -> "k" [] c = "L" -> "l"
    [] c = "M" -> "m" [] c = "N" -> "n" [] c = "O" -> "o" [] c = "P" -> "p"
    [] c = "Q" -> "q" [] c = "R" -> "r" [] c = "S" -> "s" [] c = "T" -> "t"
    [] c = "U" -> "u" [] c = "V" -> "v" [] c = "W" -> "w" [] c = "X" -> "x"
    [] c = "Y" -> "y" [] c = "Z" -> "z" [] OTHER -> c

RECURSIVE toLowerCase(_)
\* String.prototype.toLowerCase
toLowerCase(s) ==
  IF s = "" THEN ""
  ELSE LowerChar(SubSeq(s, 1, 1)) \o toLowerCase(SubSeq(s, 2, Len(s)))

----------------------------------------------------------------------------
(* The two builds of the script                                            *)

KeyBuild == "tracking_key"
OrgBuild == "org"
Builds == {KeyBuild, OrgBuild}

----------------------------------------------------------------------------
(* State                                                                   *)

VARIABLES
  cookie,          \* document.cookie
  localStorage,    \* key -> string
  sessionStorage,  \* key -> string; emptied when the session ends
  search,          \* location.search of the current page: <<name, value>> pairs
  referrer,        \* document.referrer of the current page
  tracker,         \* "none" until a build of the script has set window.__CLIENT_TRACKER__
  CONFIG,          \* const CONFIG
  dataLayer,       \* window.dataLayer of the current page
  GA_CLIENT_ID,    \* const GA_CLIENT_ID
  tracking,        \* let tracking
  adInfo,          \* const adInfo
  seenScroll,      \* const seenScroll (a Set)
  scrollTimeout,   \* TRUE while the timer whose id scrollTimeout holds is pending
  timers,          \* the pending timers the scroll listener has set, oldest first
  scrollY,         \* window.scrollY
  scrollRange,     \* document.body.scrollHeight - window.innerHeight
  formStarted,     \* let formStarted
  exitTracked,     \* let exitTracked
  hidden,          \* document.hidden
  activeElement,   \* document.activeElement: the element that was focused last
  now,             \* the clock read by Date
  navigationStart, \* performance.timing.navigationStart
  calls,           \* the arguments of each pushToDataLayer call on the current page
  firstForm,       \* the form of the first focusin the listener saw in a field of a form
  closed,          \* the pages left earlier in the session: search, dataLayer, calls
  frameData,       \* the fields of the web form in the embedded frame of the page
  tabs,            \* the other page contexts of the browser that are running getGAClientId
  console,         \* the lines the script has written to the console on the current page
  uncaught,        \* the errors the script and its listeners threw on the current page
  delivered        \* the events of the session that reached pushToDataLayer from a listener

vars == <<cookie, localStorage, sessionStorage, search, referrer, tracker,
          CONFIG, dataLayer, GA_CLIENT_ID, tracking, adInfo, seenScroll, scrollTimeout,
          timers, scrollY, scrollRange, formStarted, exitTracked, hidden, activeElement,
          now, navigationStart, calls, firstForm, closed, frameData, uncaught,
          console, tabs,
          delivered>>

browserVars == <<cookie, localStorage, sessionStorage>>
pageVars == <<search, referrer, scrollRange, navigationStart, closed, frameData, tabs>>
closureVars == <<tracker, CONFIG, GA_CLIENT_ID, tracking, adInfo>>
scrollVars == <<seenScroll, scrollTimeout, timers, scrollY>>
formVars == <<formStarted, activeElement, firstForm>>
logVars == <<dataLayer, calls, now, console>>

----------------------------------------------------------------------------
(* Bounds of the model                                                     *)

\* navigations in one session, the first page included
MaxLoads == 2

\* events that reach pushToDataLayer from a listener other than the scroll
\* timer or from the public API, per session
MaxEvents == 1

----------------------------------------------------------------------------
(* Client identity: getGAClientId                                          *)

Min(S) == CHOOSE x \in S : \A y \in S : x <= y

\* the positions i where /_ga=(.+?);/ can match: "_ga=" at i, one character
\* at least for the lazy group, and a ';' after it
GaMatchStarts(c) ==
  { i \in 1..Len(c) :
      /\ i + 3 <= Len(c)
      /\ SubSeq(c, i, i + 3) = "_ga="
      /\ \E j \in (i + 5)..Len(c) : SubSeq(c, j, j) = ";" }

\* match[1] of document.cookie.match(/_ga=(.+?);/), "" when there is no match
GaMatch(c) ==
  IF GaMatchStarts(c) = {} THEN ""
  ELSE LET i == Min(GaMatchStarts(c))
           j == Min({ k \in (i + 5)..Len(c) : SubSeq(c, k, k) = ";" })
       IN  SubSeq(c, i + 4, j - 1)

RECURSIVE Split(_)
\* s.split('.')
Split(s) ==
  LET dots == { i \in 1..Len(s) : SubSeq(s, i, i) = "." }
  IN  IF dots = {} THEN <<s>>
      ELSE <<SubSeq(s, 1, Min(dots) - 1)>> \o Split(SubSeq(s, Min(dots) + 1, Len(s)))

\* the tokens Math.random().toString(36).slice(2) can give
RandomTokens == {"k3x9", "p7q2"}

\* localStorage.getItem / sessionStorage.getItem: the text of length 0 stands for null
getItem(storage, key) == IF key \in DOMAIN storage THEN storage[key] ELSE ""

\* a storage with no entry
EmptyStorage == [k \in {} |-> ""]

\* a getGAClientId that does not call localStorage.setItem
getGAClientIdUnsaved(c, ls, rnd, t) ==
  LET match == GaMatch(c)
      parts == Split(match)
      cid   == getItem(ls, "ga_client_id")
  IN  IF match # "" /\ Len(parts) >= 4
      THEN [id |-> parts[3] \o "." \o parts[4], ls |-> ls, generated |-> FALSE]
      ELSE IF Len(cid) = 0
           THEN [id |-> "cid_" \o rnd \o ToString(t), ls |-> ls, generated |-> TRUE]
           ELSE [id |-> cid, ls |-> ls, generated |-> FALSE]

\* getGAClientId(): the id it returns and the localStorage it leaves, for
\* the token rnd of Math.random and the instant t of Date.now
getGAClientId(c, ls, rnd, t) ==
  LET match == GaMatch(c)
      parts == Split(match)
      cid   == getItem(ls, "ga_client_id")
      fresh == "cid_" \o rnd \o ToString(t)
  IN  IF match # "" /\ Len(parts) >= 4
      THEN [id |-> parts[3] \o "." \o parts[4], ls |-> ls, generated |-> FALSE]
      ELSE IF Len(cid) = 0
           THEN [id |-> fresh, ls |-> Assign(ls, "ga_client_id", fresh), generated |-> TRUE]
           ELSE [id |-> cid, ls |-> ls, generated |-> FALSE]

----------------------------------------------------------------------------
(* Attribution: readParams, the persisted record, detectAds                *)

\* the keys of the record readParams builds, in the order of the literal
AttributionFields ==
  <<"utm_source", "utm_medium", "utm_campaign", "utm_term", "utm_content",
    "utm_campaign_id", "fbclid", "gclid", "msclkid", "li_fat_id">>

AttributionKeys == { AttributionFields[i] : i \in DOMAIN AttributionFields }

\* the query parameter each field is read from
ParamOf(f) == IF f = "utm_campaign_id" THEN "utm_id" ELSE f

\* URLSearchParams.get(name) || '' : the first pair of that name
ParamGet(q, name) ==
  LET hits == { i \in DOMAIN q : q[i][1] = name }
  IN  IF hits = {} THEN "" ELSE q[Min(hits)][2]

\* readParams()
readParams(q) == [f \in AttributionKeys |-> Str(ParamGet(q, ParamOf(f)))]

\* Object.values(tracking).some(Boolean)
hasAny(rec) == \E f \in DOMAIN rec : Truthy(rec[f])

\* JSON.stringify of a record of strings: the text, as its <<key, value>> members in order
JSONstringify(rec) ==
  [i \in DOMAIN AttributionFields |-> <<AttributionFields[i], rec[AttributionFields[i]].v>>]

\* JSON.parse of such a text: the last member of a name wins
JSONparse(text) ==
  [k \in { text[i][1] : i \in DOMAIN text } |->
     Str(text[CHOOSE i \in DOMAIN text :
                /\ text[i][1] = k
                /\ \A j \in DOMAIN text : text[j][1] = k => j <= i][2])]

\* a text JSON.parse accepts: each member has its key and its value
JSONvalid(text) == \A i \in DOMAIN text : Len(text[i]) = 2

\* a script that does not read the persisted record
ResolveTrackingUrlOnly(q, ss) ==
  IF hasAny(readParams(q))
  THEN [tracking |-> readParams(q),
        ss |-> Assign(ss, "tracking_params", JSONstringify(readParams(q))), error |-> FALSE]
  ELSE [tracking |-> readParams(q), ss |-> ss, error |-> FALSE]

\* a script that keeps the persisted value of the fields the URL leaves empty
ResolveTrackingMerging(q, ss) ==
  LET fromUrl == readParams(q)
      old     == IF Len(getItem(ss, "tracking_params")) > 0
                 THEN JSONparse(getItem(ss, "tracking_params")) ELSE fromUrl
      merged  == [f \in AttributionKeys |-> Or(fromUrl[f], Get(old, f))]
  IN  IF hasAny(fromUrl)
      THEN [tracking |-> merged, ss |-> Assign(ss, "tracking_params", JSONstringify(merged)),
            error |-> FALSE]
      ELSE [tracking |-> old, ss |-> ss, error |-> FALSE]

\* the record the script resolves and the sessionStorage it leaves; error
\* when JSON.parse throws, and then tracking is still the record of the URL
ResolveTracking(q, ss) ==
  LET fromUrl == readParams(q)
      stored  == getItem(ss, "tracking_params")
  IN  IF hasAny(fromUrl)
      THEN [tracking |-> fromUrl,
            ss |-> Assign(ss, "tracking_params", JSONstringify(fromUrl)), error |-> FALSE]
      ELSE IF Len(stored) > 0
           THEN IF JSONvalid(stored)
                THEN [tracking |-> JSONparse(stored), ss |-> ss, error |-> FALSE]
                ELSE [tracking |-> fromUrl, ss |-> ss, error |-> TRUE]
           ELSE [tracking |-> fromUrl, ss |-> ss, error |-> FALSE]

\* a detectAds that tests gclid before fbclid
detectAdsGoogleFirst(data) ==
  IF Truthy(Get(data, "gclid"))
  THEN [ad_platform |-> Str("Google Ads"), ad_click_id_type |-> Str("gclid"),
        ad_click_id_value |-> Get(data, "gclid")]
  ELSE IF Truthy(Get(data, "fbclid"))
  THEN [ad_platform |-> Str("Facebook/Instagram"), ad_click_id_type |-> Str("fbclid"),
        ad_click_id_value |-> Get(data, "fbclid")]
  ELSE IF Truthy(Get(data, "msclkid"))
  THEN [ad_platform |-> Str("Microsoft Ads"), ad_click_id_type |-> Str("msclkid"),
        ad_click_id_value |-> Get(data, "msclkid")]
  ELSE IF Truthy(Get(data, "li_fat_id"))
  THEN [ad_platform |-> Str("LinkedIn Ads"), ad_click_id_type |-> Str("li_fat_id"),
        ad_click_id_value |-> Get(data, "li_fat_id")]
  ELSE [ad_platform |-> Str(""), ad_click_id_type |-> Str(""), ad_click_id_value |-> Str("")]

\* detectAds(data)
detectAds(data) ==
  IF Truthy(Get(data, "fbclid"))
  THEN [ad_platform |-> Str("Facebook/Instagram"), ad_click_id_type |-> Str("fbclid"),
        ad_click_id_value |-> Get(data, "fbclid")]
  ELSE IF Truthy(Get(data, "gclid"))
  THEN [ad_platform |-> Str("Google Ads"), ad_click_id_type |-> Str("gclid"),
        ad_click_id_value |-> Get(data, "gclid")]
  ELSE IF Truthy(Get(data, "msclkid"))
  THEN [ad_platform |-> Str("Microsoft Ads"), ad_click_id_type |-> Str("msclkid"),
        ad_click_id_value |-> Get(data, "msclkid")]
  ELSE IF Truthy(Get(data, "li_fat_id"))
  THEN [ad_platform |-> Str("LinkedIn Ads"), ad_click_id_type |-> Str("li_fat_id"),
        ad_click_id_value |-> Get(data, "li_fat_id")]
  ELSE [ad_platform |-> Str(""), ad_click_id_type |-> Str(""), ad_click_id_value |-> Str("")]

----------------------------------------------------------------------------
(* The envelope: pushToDataLayer                                           *)

\* the data-* attributes of the script tags the pages include
ScriptTags == { ("trackingKey" :> "acme") @@ ("org" :> "acme") }

\* const CONFIG, from the dataset of the script tag
Config(build, tag) ==
  IF build = KeyBuild
  THEN [key   |-> Or(Str(getItem(tag, "trackingKey")), Str("unknown")),
        env   |-> Or(Str(getItem(tag, "env")), Str("prod")),
        debug |-> getItem(tag, "debug") = "true"]
  ELSE [key   |-> Or(Str(getItem(tag, "org")), Str("unknown")),
        env   |-> Or(Str(getItem(tag, "env")), Str("prod")),
        debug |-> getItem(tag, "debug") = "true"]

\* new Date(t).toISOString()
toISOString(t) == "1970-01-01T00:00:00." \o ToString(t) \o "Z"

RECURSIVE QueryString(_)
QueryString(q) ==
  IF Len(q) = 0 THEN ""
  ELSE q[1][1] \o "=" \o q[1][2] \o
       (IF Len(q) = 1 THEN "" ELSE "&" \o QueryString(Tail(q)))

\* location.href of a page whose query is q
Href(q) ==
  "https://example.test/landing" \o (IF Len(q) = 0 THEN "" ELSE "?" \o QueryString(q))

\* the name of the key that carries the tenant in each build
TenantKey(build) == IF build = KeyBuild THEN "tracking_key" ELSE "organization"

\* the fixed part of the payload literal of pushToDataLayer
Metadata(build, cfg, cid, href, ref, t, eventName) ==
  ("event" :> eventName) @@ ("activity_type" :> eventName)
  @@ (TenantKey(build) :> cfg.key) @@ ("environment" :> cfg.env)
  @@ ("ga_client_id" :> Str(cid)) @@ ("client_id" :> Str(cid))
  @@ ("page_url" :> Str(href)) @@ ("page_title" :> Str("Landing"))
  @@ ("page_referrer" :> Or(Str(ref), Str("direct")))
  @@ ("timestamp" :> Str(toISOString(t)))

\* a payload literal without ...tracking
PayloadWithoutTracking(ctx, t, eventName, eventData) ==
  Spread(Spread(
    Metadata(ctx.build, ctx.config, ctx.cid, ctx.href, ctx.referrer, t, eventName),
    ctx.adInfo), eventData)

\* a payload literal that spreads eventData first
PayloadEventDataFirst(ctx, t, eventName, eventData) ==
  Spread(Spread(Spread(eventData,
    Metadata(ctx.build, ctx.config, ctx.cid, ctx.href, ctx.referrer, t, eventName)),
    ctx.tracking), ctx.adInfo)

\* the payload pushToDataLayer(eventName, eventData) builds in the closure ctx at instant t
Payload(ctx, t, eventName, eventData) ==
  Spread(Spread(Spread(
    Metadata(ctx.build, ctx.config, ctx.cid, ctx.href, ctx.referrer, t, eventName),
    ctx.tracking), ctx.adInfo), eventData)

\* a push onto a new array
PushedOntoNew(log, ctx, t, batch) ==
  [i \in 1..Len(batch) |->
     Spread(Spread(Spread(
       Metadata(ctx.build, ctx.config, ctx.cid, ctx.href, ctx.referrer, t + i - 1,
                batch[i].eventName),
       ctx.tracking), ctx.adInfo), batch[i].eventData)]

\* the log after the calls pushToDataLayer(batch[i].eventName, batch[i].eventData), i = 1..
Pushed(log, ctx, t, batch) ==
  log \o [i \in 1..Len(batch) |->
            Payload(ctx, t + i - 1, batch[i].eventName, batch[i].eventData)]

Call(eventName, eventData) == [eventName |-> eventName, eventData |-> eventData]

----------------------------------------------------------------------------
(* The session, the pages and the run of the script                        *)

\* the query strings of the pages: recognized parameters, none, an empty one
Searches ==
  { << <<"utm_source", "x">>, <<"gclid", "y">> >>,
    << <<"utm_source", "z">> >>,
    << <<"utm_source", "">>, <<"ref", "blog">> >> }

\* what the page has put into window.dataLayer before the script runs
PreLayers == { << >>, << ("event" :> Str("gtm.js")) >> }

\* document.body.scrollHeight - window.innerHeight of the pages
ScrollRanges == { 200 }

\* the cookie and the localStorage a session can start with
InitBrowsers ==
  { [cookie |-> "_ga=GA1.2.111.222; lang=en", ls |-> EmptyStorage],
    [cookie |-> "lang=en", ls |-> ("ga_client_id" :> "cid_old1700")],
    [cookie |-> "lang=en", ls |-> EmptyStorage] }

\* the values of the closure before the script has run
NoConfig == Config(KeyBuild, EmptyStorage)
NoTracking == readParams(<< >>)

\* the window of a page on which the script has not run yet
Fresh ==
  [tracker |-> "none", CONFIG |-> NoConfig, GA_CLIENT_ID |-> "", tracking |-> NoTracking,
   adInfo |-> detectAds(NoTracking), seenScroll |-> {}, scrollTimeout |-> FALSE,
   timers |-> << >>,
   scrollY |-> 0, formStarted |-> FALSE, exitTracked |-> FALSE, hidden |-> FALSE,
   activeElement |-> "body", calls |-> << >>, firstForm |-> "none"]

\* the pages of the site embed no web form
Frames == { EmptyObj }

\* the browser has no other page context of the site
NoTabs == << >>

\* a session whose current page has not run the script yet
InitTabbed(browsers, stores, searches, pres, frames, others) ==
  /\ tabs = others
  /\ frameData \in frames
  /\ uncaught = << >>
  /\ console = << >>
  /\ \E b \in browsers : cookie = b.cookie /\ localStorage = b.ls
  /\ sessionStorage \in stores
  /\ now = 1
  /\ delivered = 0
  /\ closed = << >>
  /\ search \in searches
  /\ dataLayer \in pres
  /\ scrollRange \in ScrollRanges
  /\ referrer = ""
  /\ navigationStart = 1
  /\ tracker = Fresh.tracker
  /\ CONFIG = Fresh.CONFIG
  /\ GA_CLIENT_ID = Fresh.GA_CLIENT_ID
  /\ tracking = Fresh.tracking
  /\ adInfo = Fresh.adInfo
  /\ seenScroll = Fresh.seenScroll
  /\ scrollTimeout = Fresh.scrollTimeout
  /\ timers = Fresh.timers
  /\ scrollY = Fresh.scrollY
  /\ formStarted = Fresh.formStarted
  /\ exitTracked = Fresh.exitTracked
  /\ hidden = Fresh.hidden
  /\ activeElement = Fresh.activeElement
  /\ calls = Fresh.calls
  /\ firstForm = Fresh.firstForm

\* the same, in a browser with no other page context of the site
InitFramed(browsers, stores, searches, pres, frames) ==
  InitTabbed(browsers, stores, searches, pres, frames, NoTabs)

\* the same, on a site without embedded web forms
InitWith(browsers, stores, searches, pres) ==
  InitFramed(browsers, stores, searches, pres, Frames)

\* a browser whose analytics cookie carries the client id
CookieBrowser == { b \in InitBrowsers : GaMatch(b.cookie) # "" }

\* a browser with no analytics cookie and no stored client id
NewBrowser == { b \in InitBrowsers : GaMatch(b.cookie) = "" /\ b.ls = EmptyStorage }

\* the first page of a session
Init == InitWith(CookieBrowser, {EmptyStorage}, Searches, { << >> })

\* the user follows a link to the page whose query is q: a new window object
Navigate(q, pre, range) ==
  /\ Len(closed) + 1 < MaxLoads
  /\ closed' = Append(closed, [search |-> search, dataLayer |-> dataLayer, calls |-> calls,
                                cookie |-> cookie, localStorage |-> localStorage,
                                cid |-> GA_CLIENT_ID])
  /\ now' = now + 1
  /\ search' = q
  /\ dataLayer' = pre
  /\ scrollRange' = range
  /\ referrer' = Href(search)
  /\ navigationStart' = now + 1
  /\ tracker' = Fresh.tracker
  /\ CONFIG' = Fresh.CONFIG
  /\ GA_CLIENT_ID' = Fresh.GA_CLIENT_ID
  /\ tracking' = Fresh.tracking
  /\ adInfo' = Fresh.adInfo
  /\ seenScroll' = Fresh.seenScroll
  /\ scrollTimeout' = Fresh.scrollTimeout
  /\ timers' = Fresh.timers
  /\ scrollY' = Fresh.scrollY
  /\ formStarted' = Fresh.formStarted
  /\ exitTracked' = Fresh.exitTracked
  /\ hidden' = Fresh.hidden
  /\ activeElement' = Fresh.activeElement
  /\ calls' = Fresh.calls
  /\ firstForm' = Fresh.firstForm
  /\ uncaught' = << >>
  /\ console' = << >>
  /\ UNCHANGED <<cookie, localStorage, sessionStorage, frameData, tabs, delivered>>

\* the script has run to its end: its listeners and its public API are there
Listening == tracker # "none" /\ \A i \in DOMAIN uncaught : uncaught[i].from # "script"

\* a node that is not an element: the document
IsElement(name) == name # "#document"

\* the closure of the listeners and of the public API on the current page
Ctx ==
  [build |-> tracker, config |-> CONFIG, cid |-> GA_CLIENT_ID, href |-> Href(search),
   referrer |-> referrer, tracking |-> tracking, adInfo |-> adInfo]

\* a session start block that does not test the marker
SessionStartUnguarded(ss) == << Call(Str("session_start"), EmptyObj) >>

\* the session start block: the calls it makes for the marker it finds
SessionStart(ss) ==
  IF Len(getItem(ss, "session_started")) = 0
  THEN << Call(Str("session_start"), EmptyObj) >>
  ELSE << >>

\* the marker the session start block leaves
SessionMarker(ss) ==
  IF Len(getItem(ss, "session_started")) = 0
  THEN Assign(ss, "session_started", "1")
  ELSE ss

\* the page view block
PageView == << Call(Str("page_view"), EmptyObj) >>

\* log(text, ...): a line on the console when CONFIG.debug is set
log(cfg, text) == IF cfg.debug THEN << "[Client Tracker] " \o text >> ELSE << >>

\* the lines of the calls of batch: the one pushToDataLayer logs for each
\* call and, after it, the line after[i] of the caller, if it has one
RECURSIVE Said(_, _, _)
Said(cfg, batch, after) ==
  IF batch = << >>
  THEN << >>
  ELSE log(cfg, "DataLayer Push:")
       \o (IF after # << >> THEN log(cfg, Head(after)) ELSE << >>)
       \o Said(cfg, Tail(batch), IF after # << >> THEN Tail(after) ELSE << >>)

\* the lines the tracking-key build writes without asking CONFIG.debug
ScriptFound(build) ==
  IF build = KeyBuild
  THEN << "Script element found:", "data-tracking-key attribute:", "dataset.trackingKey:",
          "CONFIG loaded:" >>
  ELSE << >>

\* the line the script logs when it stores or retrieves the attribution record
TrackingSaid(cfg, q, ss) ==
  IF hasAny(readParams(q))
  THEN log(cfg, "Tracking params stored:")
  ELSE IF Len(getItem(ss, "tracking_params")) > 0
       THEN log(cfg, "Tracking params retrieved from session:")
       ELSE << >>

\* the script (either build) runs on the current page
RunScript(build, tag, rnd) ==
  IF tracker # "none"
  THEN UNCHANGED vars
  ELSE LET id    == getGAClientId(cookie, localStorage, rnd, now)
           t     == IF id.generated THEN now + 1 ELSE now
           res   == ResolveTracking(search, sessionStorage)
           ctx   == [build |-> build, config |-> Config(build, tag), cid |-> id.id,
                     href |-> Href(search), referrer |-> referrer,
                     tracking |-> res.tracking, adInfo |-> detectAds(res.tracking)]
           batch == SessionStart(res.ss) \o PageView
           said  == ScriptFound(build) \o log(ctx.config, "Initializing Client Tracker")
                    \o log(ctx.config, "GA Client ID:")
       IN  /\ tracker' = build
           /\ CONFIG' = ctx.config
           /\ GA_CLIENT_ID' = id.id
           /\ localStorage' = id.ls
           /\ tracking' = res.tracking
           /\ IF res.error
              THEN /\ uncaught' = Append(uncaught, [from |-> "script", name |-> "SyntaxError"])
                   /\ now' = t
                   /\ console' = console \o said
                   /\ UNCHANGED <<adInfo, sessionStorage, dataLayer, calls>>
              ELSE /\ adInfo' = ctx.adInfo
                   /\ sessionStorage' = SessionMarker(res.ss)
                   /\ dataLayer' = Pushed(dataLayer, ctx, t, batch)
                   /\ calls' = calls \o batch
                   /\ now' = t + Len(batch)
                   /\ console' = console \o said \o TrackingSaid(ctx.config, search, sessionStorage)
                                  \o log(ctx.config, "Ad Info:")
                                  \o Said(ctx.config, batch, << >>)
                                  \o log(ctx.config, "Client Tracker Initialized")
                   /\ UNCHANGED uncaught
           /\ UNCHANGED <<cookie, pageVars, scrollVars, formVars, exitTracked, hidden,
                          delivered>>

\* a listener logs the lines before, calls pushToDataLayer once per element
\* of batch and logs after[i] after the i-th call
EmitSaying(batch, before, after) ==
  /\ dataLayer' = Pushed(dataLayer, Ctx, now, batch)
  /\ calls' = calls \o batch
  /\ now' = now + Len(batch)
  /\ console' = console \o before \o Said(CONFIG, batch, after)

\* pushToDataLayer called from the public API, once per element of batch
Emit(batch) == EmitSaying(batch, << >>, << >>)

----------------------------------------------------------------------------
(* Scroll depth                                                            *)

scrollMarks == <<25, 50, 75, 90>>

\* the positions the user scrolls to
ScrollYs == {49, 190}

\* Math.round((y / range) * 100): a number, NaN (0/0) or an infinity (y/0)
Percent(y, range) ==
  IF range = 0
  THEN IF y = 0 THEN [kind |-> "NaN", n |-> 0]
       ELSE IF y > 0 THEN [kind |-> "Infinity", n |-> 0]
       ELSE [kind |-> "-Infinity", n |-> 0]
  ELSE IF range > 0
       THEN [kind |-> "num", n |-> (200 * y + range) \div (2 * range)]
       ELSE [kind |-> "num", n |-> (200 * (0 - y) + (0 - range)) \div (2 * (0 - range))]

\* percent >= mark
Reached(percent, mark) ==
  \/ percent.kind = "Infinity"
  \/ percent.kind = "num" /\ percent.n >= mark

\* a callback that does not test seenScroll
NewMarksUnseen(percent, seen) ==
  SelectSeq(scrollMarks, LAMBDA mark : Reached(percent, mark))

\* a callback that goes through the marks from the last to the first
NewMarksDescending(percent, seen) ==
  LET up == SelectSeq(scrollMarks, LAMBDA mark : Reached(percent, mark) /\ mark \notin seen)
  IN  [i \in DOMAIN up |-> up[Len(up) + 1 - i]]

\* the marks for which the forEach of the timer callback pushes, in its order
NewMarks(percent, seen) ==
  SelectSeq(scrollMarks, LAMBDA mark : Reached(percent, mark) /\ mark \notin seen)

ScrollCalls(marks) ==
  [i \in DOMAIN marks |->
     Call(Str("scroll_depth"), ("percent_scrolled" :> Num(marks[i])))]

\* a listener that sets its timer without cancelling the one it had set
clearTimeoutSkipped(queue, named) == queue

\* clearTimeout(scrollTimeout): the timer scrollTimeout names, the last one
\* set, leaves the queue if it is still pending
clearTimeout(queue, named) ==
  IF named THEN SubSeq(queue, 1, Len(queue) - 1) ELSE queue

\* the timer setTimeout adds; restart records that the listener found one pending
Timer(restart) == [restart |-> restart]

\* the window scrolls to y and the scroll listener runs: clearTimeout, setTimeout
Scroll(y) ==
  /\ y <= scrollRange
  /\ scrollY' = y
  /\ scrollTimeout' = Listening
  /\ IF Listening
     THEN /\ Len(timers) <= MaxEvents
          /\ timers' = Append(clearTimeout(timers, scrollTimeout), Timer(scrollTimeout))
     ELSE UNCHANGED timers
  /\ UNCHANGED <<browserVars, pageVars, uncaught, closureVars, logVars, seenScroll,
                 formVars,
                 exitTracked, hidden, delivered>>

\* the oldest pending timer of the scroll listener fires and its callback runs
ScrollTimer ==
  /\ timers # << >>
  /\ LET marks == NewMarks(Percent(scrollY, scrollRange), seenScroll)
     IN  /\ seenScroll' = seenScroll \cup { marks[i] : i \in DOMAIN marks }
         /\ EmitSaying(ScrollCalls(marks), << >>, [i \in DOMAIN marks |-> "Scroll:"])
  /\ timers' = Tail(timers)
  /\ scrollTimeout' = (Tail(timers) # << >>)
  /\ UNCHANGED <<browserVars, pageVars, uncaught, closureVars, scrollY, formVars,
                 exitTracked,
                 hidden, delivered>>

----------------------------------------------------------------------------
(* Forms: form_start, form_submit                                          *)

\* the forms of the pages: their attributes and the entries of their FormData
Forms ==
  { [key |-> "login", tagName |-> "FORM", name |-> "login", id |-> "",
     action |-> "https://example.test/login",
     entries |-> << <<"username", "a">>, <<"Password", "b">>,
                    <<"card_number", "c">>, <<"cvv", "123">> >>],
    [key |-> "lead", tagName |-> "FORM", name |-> "", id |-> "lead",
     action |-> "https://example.test/lead",
     entries |-> << <<"first_name", "Jo">>, <<"utm_source", "form">> >>] }

\* the targets of submit events that are not forms
OtherSubmitTargets ==
  { [key |-> "widget", tagName |-> "DIV", name |-> "", id |-> "widget", action |-> "",
     entries |-> << >>] }

FormOf(key) == CHOOSE f \in Forms : f.key = key

\* the elements that take the focus: closest('input, select, textarea') and its closest('form')
FocusTargets ==
  { [id |-> "login.username", field |-> TRUE, form |-> "login"],
    [id |-> "lead.first_name", field |-> TRUE, form |-> "lead"],
    [id |-> "site-search", field |-> TRUE, form |-> "none"] }

\* form_name, form_id and form_action as both listeners compute them
FormFields(form) ==
  ("form_name" :> Or(Or(Str(form.name), Str(form.id)), Str("unknown_form")))
  @@ ("form_id" :> Or(Str(form.id), Str("")))
  @@ ("form_action" :> Or(Str(form.action), Str("")))

\* a guard that does not test formStarted
FormStartFiresAlways(target, started) == target.field /\ target.form # "none"

\* the guard of the focusin listener: TRUE when it goes on to push form_start
FormStartFires(target, started) ==
  target.field /\ target.form # "none" /\ ~started

\* an element takes the focus and the focusin listener runs
FocusIn(target) ==
  /\ activeElement' = target.id
  /\ firstForm' = IF Listening /\ firstForm = "none" /\ target.field
                  THEN target.form ELSE firstForm
  /\ IF Listening /\ ~IsElement(target.id)
     THEN /\ Len(uncaught) < MaxEvents
          /\ uncaught' = Append(uncaught, [from |-> "focusin", name |-> "TypeError"])
          /\ UNCHANGED <<formStarted, logVars, delivered>>
     ELSE /\ UNCHANGED uncaught
          /\ IF Listening /\ FormStartFires(target, formStarted)
             THEN /\ IF formStarted
                     THEN /\ Len(SelectSeq(calls, LAMBDA c : c.eventName = Str("form_start")))
                               <= MaxEvents
                          /\ UNCHANGED delivered
                     ELSE /\ delivered < MaxEvents
                          /\ delivered' = delivered + 1
                  /\ formStarted' = TRUE
                  /\ EmitSaying(<< Call(Str("form_start"), FormFields(FormOf(target.form))) >>,
                                << >>, << "Form Start:" >>)
             ELSE UNCHANGED <<formStarted, logVars, delivered>>
  /\ UNCHANGED <<browserVars, pageVars, closureVars, scrollVars, exitTracked, hidden>>

\* the substrings the submit listener of each build treats as sensitive
Sensitive(build) ==
  IF build = KeyBuild
  THEN <<"password", "pass", "pwd", "credit", "card", "cvv", "ssn", "social">>
  ELSE <<"password", "pass", "pwd", "credit", "card">>

\* the test of the submit listener on one key of the FormData
IsSensitive(build, key) ==
  \E i \in DOMAIN Sensitive(build) : Includes(toLowerCase(key), Sensitive(build)[i])

RECURSIVE CopyFields(_, _, _)
\* the for loop of the submit listener over formData.entries()
CopyFields(build, data, entries) ==
  IF Len(entries) = 0 THEN data
  ELSE CopyFields(build,
                  IF IsSensitive(build, entries[1][1]) THEN data
                  ELSE Assign(data, entries[1][1], Str(entries[1][2])),
                  Tail(entries))

RECURSIVE OrChainFromLast(_, _)
\* a chain that gives the last truthy operand
OrChainFromLast(data, aliases) ==
  IF Len(aliases) = 1 \/ Truthy(Get(data, aliases[Len(aliases)]))
  THEN Get(data, aliases[Len(aliases)])
  ELSE OrChainFromLast(data, SubSeq(aliases, 1, Len(aliases) - 1))

RECURSIVE OrChain(_, _)
\* data.a || data.b || ... : the first truthy operand, else the last one
OrChain(data, aliases) ==
  IF Len(aliases) = 1 \/ Truthy(Get(data, aliases[1]))
  THEN Get(data, aliases[1])
  ELSE OrChain(data, Tail(aliases))

\* a group of normalizeFieldNames: the aliases its if tests, and for each key
\* it assigns the aliases the assigned value is taken from
Group(aliases, outs) ==
  [test |-> aliases, sets |-> [i \in DOMAIN outs |-> <<outs[i], aliases>>]]

FieldGroups ==
  << Group(<<"firstName", "first_name", "firstname">>, <<"firstName", "first_name">>),
     Group(<<"lastName", "last_name", "lastname">>, <<"lastName", "last_name">>),
     Group(<<"email", "lead_email", "email_address", "user_email">>, <<"email", "lead_email">>),
     Group(<<"mobile", "mobileNo", "mobile_no", "phone", "phone_number", "phoneNumber">>,
           <<"mobile_no", "mobileNo", "phone">>),
     Group(<<"company", "company_name", "companyName", "organization">>,
           <<"company", "company_name">>),
     Group(<<"country", "country_code", "countryCode">>, <<"country">>),
     Group(<<"message", "comments", "description", "notes">>, <<"message", "comments">>),
     Group(<<"jobTitle", "job_title", "title", "position">>, <<"job_title", "jobTitle">>),
     Group(<<"industry", "business_type", "businessType">>, <<"industry", "business_type">>),
     Group(<<"website", "website_url", "websiteUrl", "url">>, <<"website", "website_url">>),
     Group(<<"state", "region", "province">>, <<"state", "region">>),
     Group(<<"city", "town">>, <<"city">>),
     Group(<<"zip", "zipcode", "zip_code", "postal_code", "postalCode">>,
           <<"zip_code", "postal_code">>),
     Group(<<"gender", "sex">>, <<"gender">>),
     [test |-> <<"age", "date_of_birth", "dob", "birthdate">>,
      sets |-> << <<"age", <<"age">> >>,
                  <<"date_of_birth", <<"date_of_birth", "dob", "birthdate">> >> >>] >>

RECURSIVE AssignAll(_, _, _)
\* the assignments in the body of one if of normalizeFieldNames
AssignAll(normalized, data, sets) ==
  IF Len(sets) = 0 THEN normalized
  ELSE AssignAll(Assign(normalized, sets[1][1], OrChain(data, sets[1][2])), data, Tail(sets))

RECURSIVE ApplyGroups(_, _, _)
ApplyGroups(normalized, data, groups) ==
  IF Len(groups) = 0 THEN normalized
  ELSE ApplyGroups(IF Truthy(OrChain(data, groups[1].test))
                   THEN AssignAll(normalized, data, groups[1].sets)
                   ELSE normalized,
                   data, Tail(groups))

\* a normalizeFieldNames that starts from an empty object instead of a copy of data
normalizeFieldNamesFromEmpty(data) == ApplyGroups(EmptyObj, data, FieldGroups)

\* normalizeFieldNames(data)
normalizeFieldNames(data) == ApplyGroups(data, data, FieldGroups)

\* the eventData the submit listener of each build passes for a form
SubmitData(build, form) ==
  IF build = KeyBuild
  THEN normalizeFieldNames(
         CopyFields(build, FormFields(form) @@ ("form_type" :> Str("html")), form.entries))
  ELSE CopyFields(build, FormFields(form), form.entries)

\* a submit event reaches the document and the submit listener runs
Submit(target) ==
  /\ Listening
  /\ IF target.tagName = "FORM"
     THEN /\ delivered < MaxEvents
          /\ delivered' = delivered + 1
          /\ EmitSaying(<< Call(Str("form_submit"), SubmitData(tracker, target)) >>, << >>,
                        << IF tracker = KeyBuild THEN "Form Submit (HTML):"
                                                 ELSE "Form Submit:" >>)
     ELSE UNCHANGED <<logVars, delivered>>
  /\ UNCHANGED <<browserVars, pageVars, uncaught, closureVars, scrollVars, formVars,
                 exitTracked, hidden>>

\* the data of the cross-frame messages the window receives
Messages ==
  { [hasData |-> FALSE, data |-> EmptyObj],
    [hasData |-> TRUE, data |-> ("type" :> Str("resize"))],
    [hasData |-> TRUE, data |-> ("event" :> Str("form_loaded"))],
    [hasData |-> TRUE,
     data |-> ("event" :> Str("form_submit")) @@ ("email_address" :> Str("jo@example.test"))
              @@ ("password" :> Str("hunter2")) @@ ("form_type" :> Str("webform"))] }

\* a guard that takes any event field
MessageAcceptedAnyEvent(m) == m.hasData /\ Truthy(Get(m.data, "event"))

\* the guard of the message listener: TRUE when it goes on to push form_submit
MessageAccepted(m) ==
  m.hasData /\ Truthy(Get(m.data, "event")) /\ Get(m.data, "event") = Str("form_submit")

\* the eventData the message listener of each build passes
MessageData(build, data) ==
  LET merged == Spread(("form_name" :> Or(Get(data, "form_name"), Str("frappe_form")))
                       @@ ("form_type" :> Str("iframe"))
                       @@ ("source" :> Str("frappe_webform")), data)
  IN  IF build = KeyBuild THEN normalizeFieldNames(merged) ELSE merged

\* a message event reaches the window and the message listener runs
Message(m) ==
  /\ Listening
  /\ IF MessageAccepted(m)
     THEN /\ delivered < MaxEvents
          /\ delivered' = delivered + 1
          /\ EmitSaying(<< Call(Str("form_submit"), MessageData(tracker, m.data)) >>, << >>,
                        << IF tracker = KeyBuild THEN "Form Submit (Iframe):"
                                                 ELSE "Iframe Form Submit:" >>)
     ELSE UNCHANGED <<logVars, delivered>>
  /\ UNCHANGED <<browserVars, pageVars, uncaught, closureVars, scrollVars, formVars,
                 exitTracked, hidden>>

----------------------------------------------------------------------------
(* Clicks, exit intent, visibility, the public API                         *)

\* the elements the user clicks, each with its ancestors, innermost first
ClickTargets ==
  { << [tagName |-> "A", text |-> "  Home ",
        attrs |-> ("data-nav-item" :> "Home") @@ ("data-cta-name" :> "hero")
                  @@ ("href" :> "/")] >>,
    << [tagName |-> "SPAN", text |-> "Sign up", attrs |-> EmptyStorage],
       [tagName |-> "BUTTON", text |-> "Sign up",
        attrs |-> ("data-cta-name" :> "signup") @@ ("id" :> "cta1")] >>,
    << [tagName |-> "DIV", text |-> "", attrs |-> EmptyStorage] >> }

hasAttribute(el, name) == name \in DOMAIN el.attrs

\* el.matches('[data-nav-item], [data-cta-name], [data-footer-link], [data-tab], a, button')
Matches(el) ==
  \/ \E a \in {"data-nav-item", "data-cta-name", "data-footer-link", "data-tab"} :
       hasAttribute(el, a)
  \/ el.tagName \in {"A", "BUTTON"}

\* String.prototype.trim, for the space character
RECURSIVE trim(_)
trim(str) ==
  IF Len(str) > 0 /\ SubSeq(str, 1, 1) = " " THEN trim(SubSeq(str, 2, Len(str)))
  ELSE IF Len(str) > 0 /\ SubSeq(str, Len(str), Len(str)) = " "
       THEN trim(SubSeq(str, 1, Len(str) - 1))
       ELSE str

\* str.slice(0, n)
slice(str, n) == IF Len(str) <= n THEN str ELSE SubSeq(str, 1, n)

\* a listener that tests the call-to-action attribute before the navigation attribute
ClickCallCtaFirst(el) ==
  LET base == ("element_type" :> Str(toLowerCase(el.tagName)))
              @@ ("element_text" :> Str(slice(trim(el.text), 100)))
              @@ ("element_href" :> Or(Str(getItem(el.attrs, "href")), Str("")))
              @@ ("element_id" :> Or(Str(getItem(el.attrs, "id")), Str("")))
              @@ ("element_class" :> Or(Str(getItem(el.attrs, "class")), Str("")))
  IN  IF hasAttribute(el, "data-cta-name")
      THEN Call(Str("cta_click"),
                Assign(Assign(base, "cta_name", Str(el.attrs["data-cta-name"])),
                       "cta_location",
                       Or(Str(getItem(el.attrs, "data-cta-location")), Str(""))))
      ELSE IF hasAttribute(el, "data-nav-item")
      THEN Call(Str("nav_click"),
                Assign(base, "nav_item", Str(el.attrs["data-nav-item"])))
      ELSE IF hasAttribute(el, "data-footer-link")
      THEN Call(Str("footer_click"),
                Assign(base, "link_name", Str(el.attrs["data-footer-link"])))
      ELSE IF hasAttribute(el, "data-tab")
      THEN Call(Str("tab_click"), Assign(base, "tab_name", Str(el.attrs["data-tab"])))
      ELSE Call(Str("click"), base)

\* the call the click listener makes for the element closest() returned
ClickCall(el) ==
  LET base == ("element_type" :> Str(toLowerCase(el.tagName)))
              @@ ("element_text" :> Str(slice(trim(el.text), 100)))
              @@ ("element_href" :> Or(Str(getItem(el.attrs, "href")), Str("")))
              @@ ("element_id" :> Or(Str(getItem(el.attrs, "id")), Str("")))
              @@ ("element_class" :> Or(Str(getItem(el.attrs, "class")), Str("")))
  IN  IF hasAttribute(el, "data-nav-item")
      THEN Call(Str("nav_click"),
                Assign(base, "nav_item", Str(el.attrs["data-nav-item"])))
      ELSE IF hasAttribute(el, "data-cta-name")
      THEN Call(Str("cta_click"),
                Assign(Assign(base, "cta_name", Str(el.attrs["data-cta-name"])),
                       "cta_location",
                       Or(Str(getItem(el.attrs, "data-cta-location")), Str(""))))
      ELSE IF hasAttribute(el, "data-footer-link")
      THEN Call(Str("footer_click"),
                Assign(base, "link_name", Str(el.attrs["data-footer-link"])))
      ELSE IF hasAttribute(el, "data-tab")
      THEN Call(Str("tab_click"), Assign(base, "tab_name", Str(el.attrs["data-tab"])))
      ELSE Call(Str("click"), base)

\* the line the click listener logs before the call, for the four specific categories
ClickSaid(cfg, call) ==
  CASE call.eventName = Str("nav_click") -> log(cfg, "Nav Click:")
    [] call.eventName = Str("cta_click") -> log(cfg, "CTA Click:")
    [] call.eventName = Str("footer_click") -> log(cfg, "Footer Click:")
    [] call.eventName = Str("tab_click") -> log(cfg, "Tab Click:")
    [] OTHER -> << >>

\* a click reaches the document and the click listener runs
Click(chain) ==
  /\ Listening
  /\ IF ~IsElement(chain[1].tagName)
     THEN /\ Len(uncaught) < MaxEvents
          /\ uncaught' = Append(uncaught, [from |-> "click", name |-> "TypeError"])
          /\ UNCHANGED <<logVars, delivered>>
     ELSE /\ UNCHANGED uncaught
          /\ LET hits == { i \in DOMAIN chain : Matches(chain[i]) }
             IN  IF hits # {}
                 THEN /\ delivered < MaxEvents
                      /\ delivered' = delivered + 1
                      /\ EmitSaying(<< ClickCall(chain[Min(hits)]) >>,
                                    ClickSaid(CONFIG, ClickCall(chain[Min(hits)])), << >>)
                 ELSE UNCHANGED <<logVars, delivered>>
  /\ UNCHANGED <<browserVars, pageVars, closureVars, scrollVars, formVars, exitTracked,
                 hidden>>

\* the clientY of the mouseleave events
ClientYs == {0, 40}

\* a mouseleave event reaches the document and the listener runs
MouseLeave(clientY) ==
  /\ Listening
  /\ IF clientY <= 0 /\ ~exitTracked
     THEN /\ delivered < MaxEvents
          /\ delivered' = delivered + 1
          /\ exitTracked' = TRUE
          /\ dataLayer' = Pushed(dataLayer, Ctx, now + 1,
               << Call(Str("exit_intent"),
                       ("time_on_page" :>
                          Num((2 * (now - navigationStart) + 1000) \div 2000))) >>)
          /\ calls' = Append(calls,
               Call(Str("exit_intent"),
                    ("time_on_page" :>
                       Num((2 * (now - navigationStart) + 1000) \div 2000))))
          /\ now' = now + 2
          /\ console' = console \o Said(CONFIG, << "exit_intent" >>,
                                         << "Exit Intent Detected" >>)
     ELSE UNCHANGED <<logVars, exitTracked, delivered>>
  /\ UNCHANGED <<browserVars, pageVars, uncaught, closureVars, scrollVars, formVars,
                 hidden>>

\* the tab is hidden or shown and the visibilitychange listener runs
VisibilityChange ==
  /\ hidden' = ~hidden
  /\ IF Listening
     THEN /\ delivered < MaxEvents
          /\ delivered' = delivered + 1
          /\ EmitSaying(<< Call(Str(IF ~hidden THEN "page_hide" ELSE "page_show"),
                               EmptyObj) >>,
                        << >>, << IF ~hidden THEN "Page Hidden" ELSE "Page Visible" >>)
     ELSE UNCHANGED <<logVars, delivered>>
  /\ UNCHANGED <<browserVars, pageVars, uncaught, closureVars, scrollVars, formVars,
                 exitTracked>>

\* the calls other scripts of the page make to window.ClientTracker.push
Pushes ==
  { Call(Str("session_start"), EmptyObj),
    Call(undefined, ("client_id" :> undefined) @@ ("utm_source" :> Str("q"))),
    Call(Str("scroll_depth"),
         ("percent_scrolled" :> Num(25)) @@ ("event" :> Str("gtm.scroll"))) }

\* window.ClientTracker.push(eventName, eventData)
PublicPush(call) ==
  /\ Listening
  /\ delivered < MaxEvents
  /\ delivered' = delivered + 1
  /\ Emit(<< call >>)
  /\ UNCHANGED <<browserVars, pageVars, uncaught, closureVars, scrollVars, formVars,
                 exitTracked, hidden>>

----------------------------------------------------------------------------
(* Specifications                                                          *)

\* the sessionStorage a page finds: at the start of a session, and later in
\* a session whose landing page had attribution parameters
SessionStores ==
  { EmptyStorage,
    ("session_started" :> "1")
    @@ ("tracking_params" :>
          JSONstringify(readParams(<< <<"utm_source", "x">>, <<"gclid", "y">> >>))) }

\* one page, opened at the start of a session or later in it
InitPage == InitWith(CookieBrowser, SessionStores, { << >> }, PreLayers)

\* the same, in each of the browsers
InitAnyBrowser == InitWith(InitBrowsers, SessionStores, { << >> }, { << >> })

\* the build a site deploys is the same on all its pages
SameDeployment(build) ==
  \A p \in DOMAIN closed : \A i \in DOMAIN closed[p].dataLayer :
    i > Len(closed[p].dataLayer) - Len(closed[p].calls)
      => TenantKey(build) \in DOMAIN closed[p].dataLayer[i]

RunAny == \E build \in Builds, tag \in ScriptTags, rnd \in RandomTokens :
            SameDeployment(build) /\ RunScript(build, tag, rnd)

\* the listeners of the script on one page, which the user scrolls to the positions ys
ObserversOn(ys) ==
  \/ RunAny
  \/ \E y \in ys : Scroll(y)
  \/ ScrollTimer
  \/ \E target \in FocusTargets : FocusIn(target)
  \/ \E target \in Forms \cup OtherSubmitTargets : Submit(target)
  \/ \E m \in Messages : Message(m)
  \/ \E chain \in ClickTargets : Click(chain)
  \/ \E clientY \in ClientYs : MouseLeave(clientY)
  \/ VisibilityChange

\* the script and its listeners on one page, no other script calling the public API
Observers == ObserversOn(ScrollYs)

SpecObservers == InitPage /\ [][Observers]_vars

\* the pages of a session, the listeners that keep no state of their own, the public API
Next ==
  \/ \E q \in Searches, range \in ScrollRanges : Navigate(q, << >>, range)
  \/ RunAny
  \/ \E target \in Forms \cup OtherSubmitTargets : Submit(target)
  \/ \E m \in Messages : Message(m)
  \/ VisibilityChange
  \/ \E call \in Pushes : PublicPush(call)

\* a session: its pages, the script on each, the events and the public API
Spec == Init /\ [][Next]_vars

\* one page with every listener and the public API
NextPage ==
  \/ ObserversOn({ y \in ScrollYs : \A z \in ScrollYs : z <= y })
  \/ \E call \in Pushes : PublicPush(call)

SpecPage == InitAnyBrowser /\ [][NextPage]_vars

\* document.cookie as the pages of a site can find it: the analytics cookie
\* first, last, alone, with two segments only, absent
Cookies ==
  { "_ga=GA1.2.111.222; lang=en",
    "lang=en; _ga=GA1.2.111.222",
    "_ga=GA1.2.111.222",
    "_ga=GA1.2; lang=en",
    "lang=en" }

\* the localStorage a session can start with
LocalStores == { EmptyStorage, ("ga_client_id" :> "cid_old1700") }

\* the browsers with each cookie and each localStorage
IdentityBrowsers == { [cookie |-> c, ls |-> ls] : c \in Cookies, ls \in LocalStores }

InitIdentity == InitWith(IdentityBrowsers, {EmptyStorage}, { << >> }, { << >> })

\* between two runs of the script the analytics library or the user sets,
\* replaces or deletes cookies
SetCookie(c) ==
  /\ tracker = "none"
  /\ c # cookie
  /\ cookie' = c
  /\ UNCHANGED <<localStorage, sessionStorage, pageVars, uncaught, closureVars,
                 scrollVars,
                 formVars, logVars, exitTracked, hidden, delivered>>

NextIdentity ==
  \/ \E range \in ScrollRanges : Navigate(<< >>, << >>, range)
  \/ RunAny
  \/ \E c \in Cookies : SetCookie(c)

\* the pages of a session in a browser whose cookies change between them
SpecIdentity == InitIdentity /\ [][NextIdentity]_vars

\* a sessionStorage whose tracking_params another script of the site wrote: a
\* text cut after the key of its first member, which JSON.parse rejects
BrokenStores ==
  { ("session_started" :> "1") @@ ("tracking_params" :> << <<"utm_source">> >>) }

\* events dispatched on the document itself: their target is not an element
DocumentClicks == { << [tagName |-> "#document", text |-> "", attrs |-> EmptyStorage] >> }
DocumentFocus == { [id |-> "#document", field |-> FALSE, form |-> "none"] }

InitFaults ==
  InitFramed(CookieBrowser, {EmptyStorage} \cup BrokenStores, { << >> }, { << >> }, Frames)

NextFaults ==
  \/ RunAny
  \/ \E target \in FocusTargets \cup DocumentFocus : FocusIn(target)
  \/ \E chain \in ClickTargets \cup DocumentClicks : Click(chain)
  \/ \E target \in Forms \cup OtherSubmitTargets : Submit(target)
  \/ \E m \in Messages : Message(m)
  \/ \E clientY \in ClientYs : MouseLeave(clientY)
  \/ \E y \in { y \in ScrollYs : \A z \in ScrollYs : z <= y } : Scroll(y)
  \/ ScrollTimer
  \/ VisibilityChange

\* one page whose session storage may hold a broken record, and every listener
SpecFaults == InitFaults /\ [][NextFaults]_vars

\* the value a web form holds in the field named alias
FieldValue(alias) == Str("v:" \o alias)

\* the fields of a web form that has some of the aliases of one group of
\* normalizeFieldNames, some of them left empty
GroupFrames(group) ==
  LET aliases == { group.test[i] : i \in DOMAIN group.test }
  IN  { [k \in has |-> IF k \in empty THEN Str("") ELSE FieldValue(k)] :
          has \in SUBSET aliases \ {{}}, empty \in SUBSET aliases }

\* web forms with fields of one group, of several groups, and of no group
WebFrames ==
  UNION { GroupFrames(FieldGroups[g]) : g \in DOMAIN FieldGroups }
  \cup { ("first_name" :> Str("Jo")) @@ ("user_email" :> Str("jo@example.test"))
           @@ ("dob" :> Str("1990-01-01")) @@ ("favorite_color" :> Str("teal")),
         ("favorite_color" :> Str("teal")),
         ("firstname" :> Str("Jo")) @@ ("firstName" :> Str("")) @@ ("age" :> Str("30"))
           @@ ("birthdate" :> Str("1990-01-01")) }

InitNormalize == InitFramed(CookieBrowser, {EmptyStorage}, { << >> }, { << >> }, WebFrames)

\* the embedded web form is submitted and posts its fields to the window
FramePosts ==
  Message([hasData |-> TRUE, data |-> ("event" :> Str("form_submit")) @@ frameData])

NextNormalize ==
  \/ \E tag \in ScriptTags, rnd \in RandomTokens : RunScript(KeyBuild, tag, rnd)
  \/ FramePosts

\* a page of the tracking_key build with an embedded web form
SpecNormalize == InitNormalize /\ [][NextNormalize]_vars

\* the query strings that carry any subset of the four click identifiers,
\* and one whose first identifier is empty
AdQueries ==
  LET ids == << <<"fbclid", "f1">>, <<"gclid", "g2">>, <<"msclkid", "m3">>,
                <<"li_fat_id", "l4">> >>
  IN  { SelectSeq(ids, LAMBDA pair : pair[1] \in chosen) :
          chosen \in SUBSET {"fbclid", "gclid", "msclkid", "li_fat_id"} }
      \cup { << <<"fbclid", "">>, <<"msclkid", "m3">>, <<"utm_source", "x">> >> }

InitAds == InitWith(CookieBrowser, {EmptyStorage}, AdQueries, { << >> })

NextAds ==
  \/ \E q \in AdQueries, range \in ScrollRanges : Navigate(q, << >>, range)
  \/ RunAny

\* the pages of a session whose URLs carry click identifiers
SpecAds == InitAds /\ [][NextAds]_vars

\* a text of 120 characters, with white space around it
LongText ==
  LET ten == "0123456789"
      forty == ten \o ten \o ten \o ten
  IN  "  " \o forty \o forty \o forty \o " "

\* the elements of a page with every kind of tracked element, each with its
\* ancestors, innermost first
TrackedClicks ==
  LET El(tag, text, attrs) == [tagName |-> tag, text |-> text, attrs |-> attrs]
      none == EmptyStorage
      nav  == ("data-nav-item" :> "Home")
      cta  == ("data-cta-name" :> "hero")
      foot == ("data-footer-link" :> "Imprint")
      tab  == ("data-tab" :> "pricing")
  IN  { << El("A", LongText, nav @@ cta @@ foot @@ tab @@ ("href" :> "/")) >>,
        << El("LI", "Home", nav) >>,
        << El("DIV", "Go", cta @@ foot @@ tab @@ ("data-cta-location" :> "top")) >>,
        << El("A", "Imprint", foot @@ tab) >>,
        << El("DIV", "Pricing", tab) >>,
        << El("LI", "", ("data-nav-item" :> "")) >>,
        << El("A", LongText, ("href" :> "/about")) >>,
        << El("BUTTON", "OK", none) >>,
        << El("DIV", "text", none) >>,
        << El("SPAN", "Go", none), El("BUTTON", "Go", none), El("DIV", "Go Home", nav) >>,
        << El("IMG", "", none), El("P", "", none), El("DIV", "Pricing", tab),
           El("NAV", "Pricing", nav) >>,
        << El("SPAN", "x", none), El("DIV", "x", none) >> }

\* one page of such a site, in each of the browsers
InitClicks == InitAnyBrowser

NextClicks ==
  \/ RunAny
  \/ \E chain \in TrackedClicks \cup DocumentClicks : Click(chain)

\* the click listener on a page with every kind of tracked element
SpecClicks == InitClicks /\ [][NextClicks]_vars

\* the positions the user scrolls to on a long page, up and down
DebounceYs == ScrollYs \cup {0, 100, 150}

NextScroll ==
  \/ RunAny
  \/ \E y \in DebounceYs : Scroll(y)
  \/ ScrollTimer

\* the scroll listener and its timer on one page
SpecScroll == InitPage /\ [][NextScroll]_vars

\* script tags with and without the configuration attributes: none at all,
\* all of them with data-debug="true", and values of data-debug other than 'true'
DebugTags ==
  { EmptyStorage,
    ("trackingKey" :> "acme") @@ ("org" :> "acme") @@ ("env" :> "dev") @@ ("debug" :> "true"),
    ("trackingKey" :> "acme") @@ ("org" :> "acme") @@ ("debug" :> "false"),
    ("env" :> "dev") @@ ("debug" :> "TRUE") }

RunTagged == \E build \in Builds, tag \in DebugTags, rnd \in RandomTokens :
               RunScript(build, tag, rnd)

InitDiagnostics == InitWith(CookieBrowser, SessionStores, { << >> }, { << >> })

NextDiagnostics ==
  \/ RunTagged
  \/ \E y \in { y \in ScrollYs : \A z \in ScrollYs : z <= y } : Scroll(y)
  \/ ScrollTimer
  \/ \E target \in FocusTargets : FocusIn(target)
  \/ \E target \in Forms \cup OtherSubmitTargets : Submit(target)
  \/ \E m \in Messages : Message(m)
  \/ \E chain \in ClickTargets : Click(chain)
  \/ \E clientY \in ClientYs : MouseLeave(clientY)
  \/ VisibilityChange

\* the script and its listeners on one page, under each configuration
SpecDiagnostics == InitDiagnostics /\ [][NextDiagnostics]_vars

\* forms of landing pages that carry click identifiers in hidden fields
CampaignForms ==
  { [key |-> "signup", tagName |-> "FORM", name |-> "signup", id |-> "",
     action |-> "https://example.test/signup",
     entries |-> << <<"email", "jo@example.test">>, <<"gclid", "">> >>],
    [key |-> "quote", tagName |-> "FORM", name |-> "", id |-> "quote",
     action |-> "https://example.test/quote",
     entries |-> << <<"fbclid", "f9">> >>] }

\* calls of other scripts to window.ClientTracker.push with such fields
CampaignPushes ==
  { Call(Str("purchase"), ("value" :> Num(10))),
    Call(Str("purchase"), ("gclid" :> Str("g9"))),
    Call(Str("lead"), ("ad_platform" :> Str("Affiliate"))) }

\* messages of an embedded web form with such a field
CampaignMessages ==
  { [hasData |-> TRUE,
     data |-> ("event" :> Str("form_submit")) @@ ("msclkid" :> Str("m7"))] }

NextDerived ==
  \/ RunAny
  \/ \E target \in CampaignForms : Submit(target)
  \/ \E m \in CampaignMessages : Message(m)
  \/ \E call \in CampaignPushes : PublicPush(call)

\* a landing page reached with click identifiers, its forms and the public API
SpecDerived == InitAds /\ [][NextDerived]_vars

\* two other tabs of the site, each about to run getGAClientId
TwoTabs == [t \in {1, 2} |-> [pc |-> "start", seen |-> "", cid |-> ""]]

\* the localStorage a tab believes in after its getItem returned seen
Seen(seen) == IF Len(seen) = 0 THEN EmptyStorage ELSE ("ga_client_id" :> seen)

\* the tab t runs localStorage.getItem('ga_client_id')
TabReads(t) ==
  /\ tabs[t].pc = "start"
  /\ tabs' = [tabs EXCEPT ![t] = [pc |-> "read",
                                  seen |-> getItem(localStorage, "ga_client_id"),
                                  cid |-> ""]]
  /\ UNCHANGED <<browserVars, search, referrer, scrollRange, navigationStart, closed,
                 frameData, closureVars, scrollVars, formVars, logVars, exitTracked,
                 hidden, uncaught, delivered>>

\* the tab t goes on with what its getItem returned: it keeps that id, or
\* generates one and runs localStorage.setItem; the clock may have advanced
TabStores(t, rnd, dt) ==
  /\ tabs[t].pc = "read"
  /\ LET id == getGAClientId(cookie, Seen(tabs[t].seen), rnd, now)
     IN  /\ tabs' = [tabs EXCEPT ![t] = [pc |-> "done", seen |-> tabs[t].seen,
                                         cid |-> id.id]]
         /\ localStorage' = IF id.generated
                            THEN Assign(localStorage, "ga_client_id", id.id)
                            ELSE localStorage
  /\ now' = now + dt
  /\ UNCHANGED <<cookie, sessionStorage, search, referrer, scrollRange, navigationStart,
                 closed, frameData, closureVars, scrollVars, formVars, dataLayer, calls,
                 console, exitTracked, hidden, uncaught, delivered>>

InitTabs == InitTabbed(NewBrowser, {EmptyStorage}, { << >> }, { << >> }, Frames, TwoTabs)

NextTabs ==
  \/ RunAny
  \/ \E t \in DOMAIN tabs : TabReads(t)
  \/ \E t \in DOMAIN tabs, rnd \in RandomTokens, dt \in {0, 1} : TabStores(t, rnd, dt)

\* a new browser opens three pages of the site at once: the current page
\* and two other tabs, whose reads and writes of the stored id interleave
SpecTabs == InitTabs /\ [][NextTabs]_vars

----------------------------------------------------------------------------
(* Properties                                                              *)

\* the pages of the session, the current one last
Pages == Append(closed, [search |-> search, dataLayer |-> dataLayer, calls |-> calls])

\* the entries of a page's log that the script pushed, in order: entry i is
\* the payload of the call page.calls[i]
Envelopes(page) ==
  SubSeq(page.dataLayer, Len(page.dataLayer) - Len(page.calls) + 1, Len(page.dataLayer))

IsEvent(e, name) == Get(e, "event") = Str(name)

\* the number of envelopes of the session whose event is name
EventCount(name) ==
  Cardinality({ <<p, i>> \in (DOMAIN Pages) \X (1..8) :
                  /\ i <= Len(Envelopes(Pages[p]))
                  /\ IsEvent(Envelopes(Pages[p])[i], name) })

\* the pages on which the session start block pushed
StartedPages ==
  { p \in DOMAIN Pages :
      /\ Len(Pages[p].calls) > 0
      /\ Pages[p].calls[1] = Call(Str("session_start"), EmptyObj) }

\* the script has run on some page of the session
SessionRan == \E p \in DOMAIN Pages : Len(Pages[p].calls) > 0

\* C1 as stated: in a session in which the script has run, exactly one
\* envelope with event = 'session_start' is in the logs of the session,
\* whatever the listeners and the callers of ClientTracker.push did
C1_Original == SessionRan => EventCount("session_start") = 1

\* C1, amended: over all page loads of a session the session start block of
\* the script pushes session_start exactly once, on the first page on which
\* the script runs; every other envelope whose event is session_start was
\* pushed under that name by a caller of pushToDataLayer
C1_SessionStartOnce ==
  SessionRan =>
    /\ Cardinality(StartedPages) = 1
    /\ \A p \in StartedPages : \A r \in 1..(p - 1) : Len(Pages[r].calls) = 0
    /\ \A p \in DOMAIN Pages : \A i \in DOMAIN Pages[p].calls :
         (IsEvent(Envelopes(Pages[p])[i], "session_start") /\ ~(i = 1 /\ p \in StartedPages))
           => \/ Pages[p].calls[i].eventName = Str("session_start")
              \/ Get(Pages[p].calls[i].eventData, "event") = Str("session_start")

\* two pages of the session have run the script and one session_start was pushed
C1_Witness ==
  /\ Len(closed) >= 1
  /\ Len(closed[1].calls) > 0
  /\ Len(calls) > 0
  /\ calls[1] = Call(Str("page_view"), EmptyObj)
  /\ EventCount("session_start") = 1

\* the entries the script pushed on the current page
Log == Envelopes([search |-> search, dataLayer |-> dataLayer, calls |-> calls])

Last(seq) == seq[Len(seq)]

\* the substrings that mark a field name as sensitive
DenyList == {"password", "pass", "pwd", "credit", "card", "cvv", "ssn", "social"}

NamesSensitive(key) == \E sub \in DenyList : Includes(toLowerCase(key), sub)

\* C2: whenever the submit listener handles the submission of a form, the
\* envelope it pushes has no key whose lowercased name contains a sensitive
\* substring, and has every other field of the form
C2_NativeSubmitDropsSensitive ==
  [][\A form \in Forms :
       Submit(form) =>
         /\ \A k \in DOMAIN Last(dataLayer') : ~NamesSensitive(k)
         /\ \A i \in DOMAIN form.entries :
              ~NamesSensitive(form.entries[i][1])
                => form.entries[i][1] \in DOMAIN Last(dataLayer')]_vars

\* C3: whenever the message listener handles a message whose data has
\* event = 'form_submit', the envelope it pushes has no key whose lowercased
\* name contains a sensitive substring
C3_MessageSubmitDropsSensitive ==
  [][\A m \in Messages :
       (MessageAccepted(m) /\ Message(m))
         => \A k \in DOMAIN Last(dataLayer') : ~NamesSensitive(k)]_vars

\* the scroll_depth envelopes of the current page, in the order of the log
ScrollLog == SelectSeq(dataLayer, LAMBDA e : IsEvent(e, "scroll_depth"))

\* C4: on a page, for each threshold at most one scroll_depth envelope with
\* that percent_scrolled is in the log, however the user scrolls
C4_EachMarkOnce ==
  \A mark \in {25, 50, 75, 90} :
    Cardinality({ i \in DOMAIN ScrollLog :
                    Get(ScrollLog[i], "percent_scrolled") = Num(mark) }) <= 1

\* the user scrolled to the bottom and back up, the timer fired after the
\* last scroll, and the log has the four scroll_depth envelopes
C4_Witness ==
  /\ seenScroll = {25, 50, 75, 90}
  /\ scrollY = 49
  /\ ~scrollTimeout
  /\ Len(ScrollLog) = 4

\* C5: on a page, the scroll_depth envelopes are in the log in strictly
\* ascending order of percent_scrolled, and none for a threshold comes
\* before the one for a lower threshold
C5_Ascending ==
  /\ \A i, j \in DOMAIN ScrollLog :
       i < j => ScrollLog[i]["percent_scrolled"].n < ScrollLog[j]["percent_scrolled"].n
  /\ \A i \in DOMAIN ScrollLog : \A mark \in {25, 50, 75, 90} :
       mark < ScrollLog[i]["percent_scrolled"].n
         => \E j \in 1..(i - 1) : ScrollLog[j]["percent_scrolled"] = Num(mark)

\* the thresholds were pushed by two evaluations, with another envelope
\* between the one for 25 and the one for 90
C5_Witness ==
  \E i, j, k \in DOMAIN dataLayer :
    /\ i < j /\ j < k
    /\ IsEvent(dataLayer[i], "scroll_depth")
    /\ Get(dataLayer[i], "percent_scrolled") = Num(25)
    /\ ~IsEvent(dataLayer[j], "scroll_depth")
    /\ IsEvent(dataLayer[k], "scroll_depth")
    /\ Get(dataLayer[k], "percent_scrolled") = Num(90)

\* the form_start envelopes of the current page
FormStartLog == SelectSeq(dataLayer, LAMBDA e : IsEvent(e, "form_start"))

\* C6: on a page at most one form_start envelope is pushed, whatever fields
\* of whatever forms take the focus; it has the name, id and action of the
\* form whose field took the focus first; a focus into a field outside any
\* form pushes nothing and leaves formStarted as it was
C6_FormStartOnce ==
  /\ [](/\ Len(FormStartLog) <= 1
        /\ formStarted <=> Len(FormStartLog) = 1
        /\ formStarted <=> firstForm # "none"
        /\ \A i \in DOMAIN FormStartLog : \A k \in DOMAIN FormFields(FormOf(firstForm)) :
             Get(FormStartLog[i], k) = FormFields(FormOf(firstForm))[k])
  /\ [][\A target \in FocusTargets :
          (target.form = "none" /\ FocusIn(target))
            => dataLayer' = dataLayer /\ formStarted' = formStarted]_vars

\* a field of the form lead has the focus after a field of the form login
\* had it, and the one form_start envelope names login
C6_Witness ==
  /\ activeElement = "lead.first_name"
  /\ firstForm = "login"
  /\ Len(FormStartLog) = 1
  /\ Get(FormStartLog[1], "form_name") = Str("login")

\* the earlier pages of the session on which the script found a non-empty
\* recognized parameter in the URL and persisted the record
Persisting ==
  { p \in DOMAIN closed : Len(closed[p].calls) > 0 /\ hasAny(readParams(closed[p].search)) }

Max(S) == CHOOSE x \in S : \A y \in S : y <= x

\* the record the most recent of them read from its URL
LastPersisted == readParams(closed[Max(Persisting)].search)

\* C7 as stated: on a page whose URL has no non-empty recognized parameter,
\* later in a session than a page that had one, every envelope has the
\* persisted record in its ten attribution fields
C7_Original ==
  (Persisting # {} /\ ~hasAny(readParams(search))) =>
    \A i \in DOMAIN Log : \A f \in AttributionKeys : Get(Log[i], f) = LastPersisted[f]

\* C7, amended: every such envelope has the persisted record in each
\* attribution field that the eventData of its call does not carry
C7_PersistedAttribution ==
  (Persisting # {} /\ ~hasAny(readParams(search))) =>
    \A i \in DOMAIN Log : \A f \in AttributionKeys \ DOMAIN calls[i].eventData :
      Get(Log[i], f) = LastPersisted[f]

\* on a page without parameters, after a page with utm_source=x&gclid=y, a
\* form whose fields include utm_source was submitted: gclid is the persisted one
C7_Witness ==
  /\ Persisting # {}
  /\ ~hasAny(readParams(search))
  /\ \E i \in DOMAIN Log :
       /\ calls[i].eventName = Str("form_submit")
       /\ "utm_source" \in DOMAIN calls[i].eventData
       /\ Get(Log[i], "gclid") = Str("y")
       /\ Get(Log[1], "utm_source") = Str("x")

\* C8: on a page whose URL has a non-empty recognized parameter, the
\* resolved record and the persisted record are the record read from that
\* URL: a field the query string does not carry is the empty string
C8_ReplacedAtomically ==
  (tracker # "none" /\ \E f \in AttributionKeys : ParamGet(search, ParamOf(f)) # "") =>
    /\ \A f \in AttributionKeys : tracking[f] = Str(ParamGet(search, ParamOf(f)))
    /\ "tracking_params" \in DOMAIN sessionStorage
    /\ JSONparse(sessionStorage["tracking_params"]) = tracking
    /\ DOMAIN tracking = AttributionKeys

\* the script ran on a page with utm_source=z after a page that persisted
\* gclid=y: the record has no gclid
C8_Witness ==
  /\ tracker # "none"
  /\ Persisting # {}
  /\ LastPersisted["gclid"] = Str("y")
  /\ tracking["utm_source"] = Str("z")
  /\ tracking["gclid"] = Str("")
  /\ JSONparse(sessionStorage["tracking_params"])["gclid"] = Str("")

\* the click identifiers in the order of their priority, with their platforms
ClickIds == <<"fbclid", "gclid", "msclkid", "li_fat_id">>
Platforms == <<"Facebook/Instagram", "Google Ads", "Microsoft Ads", "LinkedIn Ads">>

\* the classification of a record: that of its first non-empty click identifier
Classification(rec) ==
  LET present == { i \in DOMAIN ClickIds : Truthy(Get(rec, ClickIds[i])) }
  IN  IF present = {}
      THEN [ad_platform |-> Str(""), ad_click_id_type |-> Str(""),
            ad_click_id_value |-> Str("")]
      ELSE [ad_platform |-> Str(Platforms[Min(present)]),
            ad_click_id_type |-> Str(ClickIds[Min(present)]),
            ad_click_id_value |-> rec[ClickIds[Min(present)]]]

\* C9: the classification the script computes for the record it resolved is
\* that of the first non-empty click identifier in the order fbclid, gclid,
\* msclkid, li_fat_id, and the empty classification when there is none
C9_AdPriority == tracker # "none" => adInfo = Classification(tracking)

\* a record with both fbclid and gclid was classified Facebook/Instagram
C9_Witness ==
  /\ tracker # "none"
  /\ Truthy(tracking["fbclid"])
  /\ Truthy(tracking["gclid"])
  /\ adInfo.ad_platform = Str("Facebook/Instagram")
  /\ adInfo.ad_click_id_value = tracking["fbclid"]

\* C10 as stated: every envelope has event, client_id and timestamp that
\* are not undefined and has the resolved attribution record in its ten
\* attribution fields
C10_Original ==
  \A i \in DOMAIN Log :
    /\ Get(Log[i], "event") # undefined
    /\ Get(Log[i], "client_id") # undefined
    /\ Get(Log[i], "timestamp") # undefined
    /\ \A f \in AttributionKeys : Get(Log[i], f) = tracking[f]

\* C10, amended: every envelope has the eventName of its call as event, the
\* resolved client id as client_id, a timestamp that is not undefined and
\* the resolved attribution record, in each of these keys that the
\* eventData of the call does not carry; event is not undefined when the
\* call passed a name and no event key
C10_EnvelopeComplete ==
  \A i \in DOMAIN Log :
    LET given == DOMAIN calls[i].eventData
    IN  /\ "event" \notin given => Get(Log[i], "event") = calls[i].eventName
        /\ ("event" \notin given /\ calls[i].eventName # undefined)
             => Get(Log[i], "event") # undefined
        /\ "client_id" \notin given =>
             /\ Get(Log[i], "client_id") = Str(GA_CLIENT_ID)
             /\ GA_CLIENT_ID # ""
        /\ "timestamp" \notin given =>
             /\ Get(Log[i], "timestamp") # undefined
             /\ Get(Log[i], "timestamp") # Str("")
        /\ \A f \in AttributionKeys \ given : Get(Log[i], f) = tracking[f]

\* later in a session, in a browser that had no client id, the exit intent
\* listener pushed an envelope with the generated id and the persisted record
C10_Witness ==
  \E i \in DOMAIN Log :
    /\ calls[i].eventName = Str("exit_intent")
    /\ Get(Log[i], "utm_source") = Str("x")
    /\ Get(Log[i], "client_id") = Str(GA_CLIENT_ID)
    /\ "ga_client_id" \in DOMAIN localStorage
    /\ localStorage["ga_client_id"] = GA_CLIENT_ID
    /\ GA_CLIENT_ID # "cid_old1700"

\* C11: every step of the script and of its listeners leaves the entries
\* the log has where they are and as they are, and appends one entry for
\* each call of pushToDataLayer it makes; the run of the script keeps the
\* entries other scripts pushed before it
C11_AppendOnly ==
  [][/\ Len(dataLayer') = Len(dataLayer) + (Len(calls') - Len(calls))
     /\ Len(calls') >= Len(calls)
     /\ SubSeq(dataLayer', 1, Len(dataLayer)) = dataLayer]_vars

\* the script ran on a page whose log had an entry of the tag manager, and a
\* listener pushed after it: the entry is still the first
C11_Witness ==
  /\ Len(calls) >= 3
  /\ Len(dataLayer) = Len(calls) + 1
  /\ dataLayer[1] = ("event" :> Str("gtm.js"))

\* the keys of the fixed part of the payload and the values the closure gives them
FixedPart(eventName) ==
  ("event" :> eventName) @@ ("activity_type" :> eventName)
  @@ (TenantKey(tracker) :> CONFIG.key) @@ ("environment" :> CONFIG.env)
  @@ ("ga_client_id" :> Str(GA_CLIENT_ID)) @@ ("client_id" :> Str(GA_CLIENT_ID))
  @@ ("page_url" :> Str(Href(search)))
  @@ ("page_referrer" :> IF referrer = "" THEN Str("direct") ELSE Str(referrer))

\* C12: in every envelope a key of eventData has the value of eventData; a
\* key of the ad classification that eventData does not have has the value
\* of the classification; a key of the attribution record that neither has
\* has the value of the record; a key of the fixed part that none of them
\* has has the fixed value
C12_LaterLayerWins ==
  \A i \in DOMAIN Log :
    LET data  == calls[i].eventData
        fixed == FixedPart(calls[i].eventName)
    IN  /\ \A k \in DOMAIN data : Log[i][k] = data[k]
        /\ \A k \in DOMAIN adInfo \ DOMAIN data : Log[i][k] = adInfo[k]
        /\ \A k \in DOMAIN tracking \ (DOMAIN adInfo \cup DOMAIN data) :
             Log[i][k] = tracking[k]
        /\ \A k \in DOMAIN fixed \ (DOMAIN tracking \cup DOMAIN adInfo \cup DOMAIN data) :
             Log[i][k] = fixed[k]
        /\ DOMAIN Log[i] = DOMAIN fixed \cup {"page_title", "timestamp"}
                             \cup DOMAIN tracking \cup DOMAIN adInfo \cup DOMAIN data

\* a call whose eventData has the keys client_id and utm_source with values
\* other than the resolved client id and the persisted utm_source
C12_Witness ==
  /\ tracking["utm_source"] = Str("x")
  /\ \E j \in DOMAIN Log :
       /\ "client_id" \in DOMAIN calls[j].eventData
       /\ Log[j]["client_id"] = undefined
       /\ Log[j]["ga_client_id"] = Str(GA_CLIENT_ID)
       /\ Log[j]["utm_source"] = Str("q")

\* C13: while the cookie and localStorage are as the call of getGAClientId
\* on this page left them, another call returns the id that call returned
\* and leaves localStorage as it is, whatever Math.random and Date.now give
C13_IdentityIdempotent ==
  tracker # "none" =>
    \A rnd \in RandomTokens, t \in {now, now + 1} :
      /\ getGAClientId(cookie, localStorage, rnd, t).id = GA_CLIENT_ID
      /\ getGAClientId(cookie, localStorage, rnd, t).ls = localStorage

\* the first call generated an id and persisted it
C13_Witness ==
  /\ tracker # "none"
  /\ closed = << >>
  /\ GaMatch(cookie) = ""
  /\ SubSeq(GA_CLIENT_ID, 1, 4) = "cid_"
  /\ GA_CLIENT_ID # "cid_old1700"
  /\ getItem(localStorage, "ga_client_id") = GA_CLIENT_ID

\* the value of the cookie name in the text of document.cookie ("name=value"
\* pairs separated by "; "), the text of length 0 when there is none
CookieValue(c, name) ==
  LET starts == { i \in 1..Len(c) :
                    /\ i + Len(name) <= Len(c)
                    /\ SubSeq(c, i, i + Len(name)) = name \o "="
                    /\ (i = 1 \/ (i > 2 /\ SubSeq(c, i - 2, i - 1) = "; ")) }
  IN  IF starts = {} THEN ""
      ELSE LET from == Min(starts) + Len(name) + 1
               ends == { j \in from..Len(c) : SubSeq(c, j, j) = ";" }
           IN  SubSeq(c, from, IF ends = {} THEN Len(c) ELSE Min(ends) - 1)

\* segments 3 and 4 of an analytics cookie that has four segments at least
CookieClientId(c) ==
  LET parts == Split(CookieValue(c, "_ga"))
  IN  IF Len(parts) >= 4 THEN parts[3] \o "." \o parts[4] ELSE ""

\* C14: when the script runs, the id it resolves is segments 3 and 4 of the
\* analytics cookie if the cookie is there with four segments at least, and
\* then localStorage is not written; else the stored id if there is one;
\* else a new id that begins with cid_ and is persisted
C14_IdentityPrecedence ==
  [][(tracker = "none" /\ tracker' # "none") =>
       IF CookieClientId(cookie) # ""
       THEN GA_CLIENT_ID' = CookieClientId(cookie) /\ localStorage' = localStorage
       ELSE IF getItem(localStorage, "ga_client_id") # ""
            THEN /\ GA_CLIENT_ID' = getItem(localStorage, "ga_client_id")
                 /\ localStorage' = localStorage
            ELSE /\ SubSeq(GA_CLIENT_ID', 1, 4) = "cid_"
                 /\ getItem(localStorage', "ga_client_id") = GA_CLIENT_ID']_vars

\* the earlier pages of the session on which the script resolved a client id
Resolved == { p \in DOMAIN closed : closed[p].cid # "" }

\* what the id of page p came from is still there: the analytics cookie with
\* the same value, or the stored id
StillExists(p) ==
  \/ /\ CookieClientId(closed[p].cookie) # ""
     /\ CookieClientId(cookie) = CookieClientId(closed[p].cookie)
  \/ /\ getItem(closed[p].localStorage, "ga_client_id") # ""
     /\ getItem(localStorage, "ga_client_id") = getItem(closed[p].localStorage, "ga_client_id")

\* C15: the id the script resolves on a page is the id it resolved on every
\* earlier page of the session whose cookie or stored id is still there
C15_ClientIdStable ==
  tracker # "none" =>
    \A p \in Resolved : StillExists(p) => GA_CLIENT_ID = closed[p].cid

\* the form_submit calls of the current page
Submitted == { i \in DOMAIN calls : calls[i].eventName = Str("form_submit") }

\* a value that is present and not empty
NonEmpty(v) == v # undefined /\ v # Str("")

\* the value of the first alias, in the order of aliases, that data has with
\* a non-empty value; undefined when there is none
FirstNonEmpty(data, aliases) ==
  LET found == { i \in DOMAIN aliases : NonEmpty(Get(data, aliases[i])) }
  IN  IF found = {} THEN undefined ELSE data[aliases[Min(found)]]

\* the aliases of a group in their order, and the keys the group populates
GroupAliases(g) == FieldGroups[g].test
GroupOutputs(g) == { FieldGroups[g].sets[i][1] : i \in DOMAIN FieldGroups[g].sets }

\* the group of the birth date
BirthGroups == { g \in DOMAIN FieldGroups : "date_of_birth" \in GroupOutputs(g) }

RawKeys == DOMAIN frameData \cup {"event", "form_name", "form_type", "source"}

\* C17: every key of the output of normalizeFieldNames that is not a key of
\* its input has a non-empty value, which is the value of a non-empty alias
\* that the input has of a group that populates the key
C17_NoEmptyKeys ==
  \A i \in Submitted : \A k \in DOMAIN calls[i].eventData \ RawKeys :
    /\ NonEmpty(calls[i].eventData[k])
    /\ \E g \in DOMAIN FieldGroups :
         /\ k \in GroupOutputs(g)
         /\ \E a \in DOMAIN GroupAliases(g) :
              /\ NonEmpty(Get(frameData, GroupAliases(g)[a]))
              /\ calls[i].eventData[k] = frameData[GroupAliases(g)[a]]

\* C18: neither the script nor any of its listeners throws, whatever the
\* cookie, the storages, the URL and the events are
C18_NeverThrows == uncaught = << >>

\* a message whose data has the field event with the value 'form_submit'
IsFormSubmit(m) ==
  m.hasData /\ "event" \in DOMAIN m.data /\ m.data["event"] = Str("form_submit")

\* C19: when the message listener handles a message, it changes nothing if
\* the message has no data, no event field, or an event field other than
\* 'form_submit'; for event = 'form_submit' it appends one envelope, whose
\* event is form_submit, and changes nothing in the entries before it
C19_MessageHandling ==
  [][\A m \in Messages :
       Message(m) =>
         IF IsFormSubmit(m)
         THEN /\ Len(dataLayer') = Len(dataLayer) + 1
              /\ SubSeq(dataLayer', 1, Len(dataLayer)) = dataLayer
              /\ IsEvent(Last(dataLayer'), "form_submit")
         ELSE UNCHANGED vars]_vars

\* the listener handled a form_submit message: its envelope is in the log
C19_Witness ==
  \E i \in Submitted :
    /\ Get(calls[i].eventData, "source") = Str("frappe_webform")
    /\ Get(Log[i], "event") = Str("form_submit")
    /\ Get(Log[i], "email_address") = Str("jo@example.test")

\* C20: the envelope the message listener pushes for a form_submit message
\* has form_type = 'iframe', whatever the fields of the message are
C20_IframeFormType ==
  [][\A m \in Messages :
       (IsFormSubmit(m) /\ Message(m))
         => Get(Last(dataLayer'), "form_type") = Str("iframe")]_vars

\* the attributes of the four specific categories and the names of their
\* events, in the order of precedence
CategoryAttributes == <<"data-nav-item", "data-cta-name", "data-footer-link", "data-tab">>
CategoryEvents == <<"nav_click", "cta_click", "footer_click", "tab_click">>

\* the element has one of the four attributes, or is a link or a button
IsTracked(el) ==
  \/ \E c \in DOMAIN CategoryAttributes : CategoryAttributes[c] \in DOMAIN el.attrs
  \/ el.tagName \in {"A", "BUTTON"}

\* the name of the event of a tracked element: that of the first of the four
\* attributes it has, click when it has none
EventOf(el) ==
  LET has == { c \in DOMAIN CategoryAttributes : CategoryAttributes[c] \in DOMAIN el.attrs }
  IN  IF has = {} THEN "click" ELSE CategoryEvents[Min(has)]

\* C21: a click appends nothing to the log when neither its target nor an
\* ancestor of it is a tracked element; otherwise it appends exactly one
\* envelope, whose event is the one of the innermost tracked element (the
\* first of nav_click, cta_click, footer_click, tab_click whose attribute
\* the element has, click when it has none) and whose element_text has at
\* most 100 characters
C21_ClickClassified ==
  [][\A chain \in TrackedClicks \cup DocumentClicks :
       Click(chain) =>
         LET tracked == { i \in DOMAIN chain : IsTracked(chain[i]) }
         IN  IF tracked = {}
             THEN dataLayer' = dataLayer
             ELSE /\ Len(dataLayer') = Len(dataLayer) + 1
                  /\ SubSeq(dataLayer', 1, Len(dataLayer)) = dataLayer
                  /\ IsEvent(Last(dataLayer'), EventOf(chain[Min(tracked)]))
                  /\ Get(Last(dataLayer'), "element_text").t = "str"
                  /\ Len(Get(Last(dataLayer'), "element_text").v) <= 100]_vars

\* the link that has all four attributes and a text of 120 characters was
\* clicked: one nav_click, with 100 characters of text
C21_Witness ==
  /\ Len(calls) > 0
  /\ IsEvent(Last(dataLayer), "nav_click")
  /\ "nav_item" \in DOMAIN Last(dataLayer)
  /\ "cta_name" \notin DOMAIN Last(dataLayer)
  /\ Len(Get(Last(dataLayer), "element_text").v) = 100

\* the marks the position y has reached on a page whose scrollable height is range
MarksAt(y, range) ==
  { scrollMarks[i] : i \in { j \in DOMAIN scrollMarks :
                               Reached(Percent(y, range), scrollMarks[j]) } }

\* C22: at most one evaluation is pending at any time; a scroll event the
\* listener handles leaves exactly one pending, a new one, whether or not
\* one was pending before; when an evaluation runs, no other is pending (no
\* scroll event came after the one that scheduled it), and it pushes one
\* scroll_depth for each mark not seen yet that the position of the window
\* at that moment has reached, whatever the positions of the earlier scroll
\* events were
C22_Debounce ==
  /\ [](Len(timers) <= 1)
  /\ [][/\ \A y \in DebounceYs :
             (Listening /\ Scroll(y))
               => /\ timers' = << Timer(timers # << >>) >>
                  /\ dataLayer' = dataLayer
                  /\ seenScroll' = seenScroll
        /\ ScrollTimer
             => /\ Len(timers) = 1
                /\ timers' = << >>
                /\ seenScroll' = seenScroll \cup MarksAt(scrollY, scrollRange)
                /\ Len(dataLayer') - Len(dataLayer)
                     = Cardinality(MarksAt(scrollY, scrollRange) \ seenScroll)
                /\ \A i \in (Len(dataLayer) + 1)..Len(dataLayer') :
                     /\ IsEvent(dataLayer'[i], "scroll_depth")
                     /\ Get(dataLayer'[i], "percent_scrolled").n
                          \in MarksAt(scrollY, scrollRange) \ seenScroll]_vars

\* an evaluation has run at a position between 25% and 50%; later scroll
\* events, the last one to the bottom of the page, have cancelled a pending
\* evaluation and scheduled the one that is pending now
C22_Witness ==
  /\ seenScroll = {25}
  /\ scrollY = 190
  /\ timers = << Timer(TRUE) >>

\* C23: while the debug attribute is missing or is not 'true' the console
\* has no line of the tracker, after the initialization and after every
\* listener; and a run of the script under a tag without attributes leaves
\* the tenant key 'unknown', the environment 'prod' and debug disabled
C23_DiagnosticsGated ==
  /\ []((tracker # "none" /\ ~CONFIG.debug) => console = << >>)
  /\ [][\A build \in Builds, rnd \in RandomTokens :
          (tracker = "none" /\ RunScript(build, EmptyStorage, rnd))
            => CONFIG' = [key |-> Str("unknown"), env |-> Str("prod"), debug |-> FALSE]]_vars

\* the positions of the envelopes of the current page whose event is name
Positions(name) == { i \in DOMAIN dataLayer : IsEvent(dataLayer[i], name) }

\* C24: a run of the script on a page on which a build has already run
\* changes nothing (no entry in the log, no listener, the public API is
\* still that of the first run), and on a page on which the script has run,
\* once or more often, the log has exactly one page_view, after the
\* session_start of the page if there is one
C24_InitializedOnce ==
  /\ [][\A build \in Builds, tag \in ScriptTags, rnd \in RandomTokens :
          (tracker # "none" /\ RunScript(build, tag, rnd)) => UNCHANGED vars]_vars
  /\ [](tracker # "none"
          => /\ Cardinality(Positions("page_view")) = 1
             /\ \A i \in Positions("session_start"), j \in Positions("page_view") : i < j)

\* the three ad classification fields of an envelope
AdFields(e) ==
  [ad_platform |-> Get(e, "ad_platform"), ad_click_id_type |-> Get(e, "ad_click_id_type"),
   ad_click_id_value |-> Get(e, "ad_click_id_value")]

\* C25: the ad classification fields of every envelope of the log are the
\* classification of the click identifiers of that envelope, and what
\* getAdInfo() returns is the classification of what getTracking() returns
C25_AdFieldsDerived ==
  /\ \A i \in DOMAIN dataLayer : AdFields(dataLayer[i]) = Classification(dataLayer[i])
  /\ tracker # "none" => adInfo = Classification(tracking)

\* the groups, other than that of the birth date, that populate the key k
PopulatingGroups(k) ==
  { g \in DOMAIN FieldGroups \ BirthGroups : k \in GroupOutputs(g) }

\* C26 as stated: the output of normalizeFieldNames is a fixed point of it,
\* has every key of the input, and has the input's value under every key
\* whose value in the input is non-empty
C26_Original ==
  \A i \in Submitted :
    LET out == calls[i].eventData
    IN  /\ normalizeFieldNames(out) = out
        /\ DOMAIN frameData \subseteq DOMAIN out
        /\ \A k \in DOMAIN frameData : NonEmpty(frameData[k]) => out[k] = frameData[k]

\* C26, amended: the output of normalizeFieldNames is a fixed point of it and
\* has every key of the input; a key whose value in the input is non-empty
\* keeps that value unless a group other than that of the birth date
\* populates it, and then it has the value of the first non-empty alias of
\* that group
C26_IdempotentKeepsKeys ==
  \A i \in Submitted :
    LET out == calls[i].eventData
    IN  /\ normalizeFieldNames(out) = out
        /\ DOMAIN frameData \subseteq DOMAIN out
        /\ \A k \in DOMAIN frameData :
             NonEmpty(frameData[k]) =>
               /\ PopulatingGroups(k) = {} => out[k] = frameData[k]
               /\ \A g \in PopulatingGroups(k) :
                    out[k] = FirstNonEmpty(frameData, GroupAliases(g))

\* a web form with different values in firstName and first_name was
\* submitted: the output has the value of firstName under both keys
C26_Witness ==
  /\ NonEmpty(Get(frameData, "firstName"))
  /\ NonEmpty(Get(frameData, "first_name"))
  /\ Get(frameData, "first_name") # Get(frameData, "firstName")
  /\ \E i \in Submitted :
       /\ calls[i].eventData["first_name"] = frameData["firstName"]
       /\ calls[i].eventData["firstName"] = frameData["firstName"]

\* C27: when the two tabs of a new browser have both initialized, however
\* their reads and writes of ga_client_id interleaved, they have the same
\* client id, and it is the value of ga_client_id in localStorage
C27_TabsAgree ==
  (\A t \in DOMAIN tabs : tabs[t].pc = "done")
    => \A t \in DOMAIN tabs : tabs[t].cid = getItem(localStorage, "ga_client_id")

====
